---------------------------- MODULE Spec2Model ----------------------------
(***************************************************************************)
(* A model of the News-Agent pipeline (src/agent.py): feed collection,     *)
(* title de-duplication, the two retried generation calls, the script to   *)
(* audio synthesis, the chunked webhook delivery and the top-level run     *)
(* with its error notification.                                            *)
(*                                                                         *)
(* Representation of strings.  A title is the sequence of its whitespace   *)
(* separated tokens.  A text handed to send_discord is the sequence of the *)
(* lengths of its lines (the chunking code reads nothing but len(line)).   *)
(* A podcast script is a sequence of symbols: NL (newline), SP (a blank),  *)
(* ALEX / SARA (the five characters of a speaker tag) and CH (any other    *)
(* character).                                                             *)
(***************************************************************************)
EXTENDS Integers, Sequences, FiniteSets, TLC

VARIABLES
    \* ---- deduplicate, called on its own
    dArticles,      \* the argument of deduplicate
    dUnique,        \* its result
    dTwice,         \* the result of deduplicate on its own result
    dpc,
    \* ---- send_discord
    sdText,         \* the text argument: [what, lines], lines = the lengths of text.split("\n")
    sdUser,         \* the username argument
    sdChunks,       \* chunks, each the sequence of the lines joined in it
    sdIdx,          \* the position of the posting loop in chunks
    posts,          \* every request made to the webhook, in order
    logs,           \* what was printed about deliveries
    sdpc,
    \* ---- generate_podcast_audio
    aScript,        \* the script argument
    aVoices,        \* voice_host and voice_guest as read from the configuration
    aLines,         \* lines
    aIdx,           \* the position of the loop in lines
    aSegments,      \* audio_segments
    synthCalls,     \* the requests made to the speech service, in order
    aFile,          \* the bytes written to output_path
    apc,
    \* ---- fetch_articles
    fSources,       \* the sources argument
    fLimit,         \* the limit argument
    fMaxAge,        \* the max_age_hours argument
    fIdx,           \* the position of the loop in sources
    fArticles,      \* articles
    fParsed,        \* what feedparser.parse did for each source so far
    fResult,        \* the list returned
    fExc,           \* the exception that left fetch_articles
    fpc,
    \* ---- the top-level run
    env,            \* the environment: is DISCORD_WEBHOOK_URL set, is GOOGLE_APPLICATION_CREDENTIALS set
    config,         \* the configuration load_config returned
    articles,
    digest,
    script,
    digAttempts,    \* the outcome of every attempt of generate_digest's body
    scrAttempts,    \* the outcome of every attempt of generate_podcast_script's body
    calls,          \* the functions the run has called
    exc,            \* the exception the except clause of the run caught
    raised,         \* the exception that left the process
    pc

dedupVars == <<dArticles, dUnique, dTwice, dpc>>
sdVars == <<sdText, sdUser, sdChunks, sdIdx, posts, logs, sdpc>>
audioVars == <<aScript, aVoices, aLines, aIdx, aSegments, synthCalls, aFile, apc>>
fetchVars == <<fSources, fLimit, fMaxAge, fIdx, fArticles, fParsed, fResult, fExc, fpc>>
runVars == <<env, config, articles, digest, script, digAttempts, scrAttempts, calls, exc,
             raised, pc>>
vars == <<dedupVars, sdVars, audioVars, fetchVars, runVars>>

Max(a, b) == IF a >= b THEN a ELSE b
Min(a, b) == IF a <= b THEN a ELSE b

\* q[:n]
Take(q, n) == SubSeq(q, 1, Min(Len(q), n))

\* no exception
NoExc == [kind |-> "none", at |-> "none", attempt |-> 0]

\* no text
NoText == [what |-> [kind |-> "none", attempt |-> 0, error |-> NoExc], lines |-> <<>>]

\* dict.get(key, default) on a record that may lack the key
Get(d, key, default) == IF key \in DOMAIN d THEN d[key] ELSE default

(***************************************************************************)
(* Bounds of the model.                                                    *)
(***************************************************************************)
MaxArticles == 3
MaxLines == 3
MaxScriptLen == 6
MaxSources == 2

(***************************************************************************)
(* deduplicate (src/agent.py 98-121)                                       *)
(***************************************************************************)
\* str.lower on one token of the vocabulary used by the titles below
Lower(w) ==
    CASE w = "Fed"     -> "fed"
      [] w = "Federal" -> "federal"
      [] w = "Reserve" -> "reserve"
      [] w = "Cats"    -> "cats"
      [] OTHER         -> w

\* set(article["title"].lower().split())
TitleWords(title) == {Lower(title[i]) : i \in DOMAIN title}

\* the threshold 0.6 of line 111, as the fraction OverlapNum / OverlapDen
OverlapNum == 6
OverlapDen == 10

\* faulty variant: the overlap is taken against the smaller set instead of the union
TooSimilarMin(a, b) ==
    OverlapDen * Cardinality(a \cap b)
        > OverlapNum * Max(Min(Cardinality(a), Cardinality(b)), 1)

\* len(title_words & seen) / max(len(title_words | seen), 1) > 0.6
TooSimilar(a, b) ==
    OverlapDen * Cardinality(a \cap b) > OverlapNum * Max(Cardinality(a \cup b), 1)

\* faulty variant: only the word set accepted last is compared
IsDuplicateOfLast(title_words, seen_titles) ==
    /\ seen_titles # <<>>
    /\ TooSimilar(title_words, seen_titles[Len(seen_titles)])

\* the inner loop: is_duplicate after comparing against every seen word set
IsDuplicate(title_words, seen_titles) ==
    \E k \in DOMAIN seen_titles : TooSimilar(title_words, seen_titles[k])

\* faulty variant: an accepted article is put in front of the result
AcceptFront(unique, article) == <<article>> \o unique

\* unique.append(article)
Accept(unique, article) == Append(unique, article)

RECURSIVE DedupLoop(_, _, _, _)
\* the outer loop over the articles, from article i on, with the accumulators seen_titles, unique
DedupLoop(batch, i, seen_titles, unique) ==
    IF i > Len(batch) THEN unique
    ELSE LET title_words == TitleWords(batch[i].title)
         IN  IF IsDuplicate(title_words, seen_titles)
             THEN DedupLoop(batch, i + 1, seen_titles, unique)
             ELSE DedupLoop(batch, i + 1,
                            Append(seen_titles, title_words),
                            Accept(unique, batch[i]))

deduplicate(batch) == DedupLoop(batch, 1, <<>>, <<>>)

\* The titles the articles of the model carry
FedShort   == <<"Fed", "raises", "rates">>
FedLong    == <<"Federal", "Reserve", "raises", "interest", "rates">>
CatsTitle  == <<"Cats", "are", "cute">>
FedLower   == <<"fed", "raises", "rates", "rates">>
FedToday   == <<"Fed", "raises", "rates", "today">>
FedAgain   == <<"Fed", "raises", "rates", "today", "again">>
EmptyTitle == <<>>
TitlePool  == {FedShort, FedLong, CatsTitle, FedLower, FedToday, FedAgain, EmptyTitle}

(***************************************************************************)
(* send_discord (src/agent.py 19-44)                                       *)
(***************************************************************************)
RECURSIVE Sum(_)
Sum(q) == IF q = <<>> THEN 0 ELSE Head(q) + Sum(Tail(q))

\* len() of the string made of the lines q joined by "\n"
StrLen(q) == IF q = <<>> THEN 0 ELSE Sum(q) + Len(q) - 1

\* the chunk limit of line 28
ChunkLimit == 1900

\* current_chunk += "\n" + line if current_chunk else line
JoinLine(current_chunk, line) ==
    IF StrLen(current_chunk) > 0 THEN Append(current_chunk, line) ELSE <<line>>

RECURSIVE SplitLoop(_, _, _, _)
\* the loop of lines 27-32 from line i on, then lines 33-34
SplitLoop(lines, i, current_chunk, chunks) ==
    IF i > Len(lines)
    THEN IF StrLen(current_chunk) > 0 THEN Append(chunks, current_chunk) ELSE chunks
    ELSE IF StrLen(current_chunk) + lines[i] + 1 > ChunkLimit
         THEN SplitLoop(lines, i + 1, <<lines[i]>>, Append(chunks, current_chunk))
         ELSE SplitLoop(lines, i + 1, JoinLine(current_chunk, lines[i]), chunks)

SplitChunks(lines) == SplitLoop(lines, 1, <<>>, <<>>)

\* what requests.post does: the webhook answers with status 204 or with
\* status 200, or the request raises
PostOutcomes == {"204", "200", "raise"}

SendDiscordIdle ==
    /\ sdText = NoText
    /\ sdUser = "none"
    /\ sdChunks = <<>>
    /\ sdIdx = 0
    /\ posts = <<>>
    /\ logs = <<>>
    /\ sdpc = "idle"

\* the call send_discord(text, webhook_url, username)
SendDiscordCall(text, username) ==
    /\ sdText' = text
    /\ sdUser' = username
    /\ sdChunks' = <<>>
    /\ sdIdx' = 0
    /\ sdpc' = "called"

\* lines 25-34: the text is cut into chunks
SendDiscordSplit ==
    /\ sdpc = "called"
    /\ sdChunks' = SplitChunks(sdText.lines)
    /\ sdIdx' = 1
    /\ sdpc' = "posting"
    /\ UNCHANGED <<sdText, sdUser, posts, logs>>

\* lines 36-44: one round of the posting loop
SendDiscordPost ==
    /\ sdpc = "posting"
    /\ sdIdx <= Len(sdChunks)
    /\ \E r \in PostOutcomes :
          /\ posts' = Append(posts, [username |-> sdUser, what |-> sdText.what,
                                     content |-> sdChunks[sdIdx], file |-> <<>>,
                                     outcome |-> r])
          /\ IF r = "raise"
             THEN /\ sdpc' = "raised"
                  /\ UNCHANGED <<sdIdx, logs>>
             ELSE /\ logs' = Append(logs, IF r = "204" THEN "gesendet" ELSE "Fehler")
                  /\ sdIdx' = sdIdx + 1
                  /\ UNCHANGED sdpc
    /\ UNCHANGED <<sdText, sdUser, sdChunks>>

\* the loop is over and send_discord returns
SendDiscordReturn ==
    /\ sdpc = "posting"
    /\ sdIdx > Len(sdChunks)
    /\ sdpc' = "returned"
    /\ UNCHANGED <<sdText, sdUser, sdChunks, sdIdx, posts, logs>>

(***************************************************************************)
(* generate_podcast_audio (src/agent.py 237-292)                           *)
(***************************************************************************)
\* the characters str.strip removes
IsSpace(c) == c \in {"SP", "NL"}

RECURSIVE LStrip(_)
LStrip(q) == IF q # <<>> /\ IsSpace(Head(q)) THEN LStrip(Tail(q)) ELSE q

RECURSIVE RStrip(_)
RStrip(q) ==
    IF q # <<>> /\ IsSpace(q[Len(q)]) THEN RStrip(SubSeq(q, 1, Len(q) - 1)) ELSE q

\* str.strip()
Strip(q) == RStrip(LStrip(q))

RECURSIVE SplitNL(_, _, _)
\* str.split("\n"): cur is the line being read, done the lines before it
SplitNL(q, cur, done) ==
    IF q = <<>> THEN Append(done, cur)
    ELSE IF Head(q) = "NL" THEN SplitNL(Tail(q), <<>>, Append(done, cur))
         ELSE SplitNL(Tail(q), Append(cur, Head(q)), done)

\* [line.strip() for line in script.strip().split("\n") if line.strip()]
ScriptLines(text) ==
    LET raw == SplitNL(Strip(text), <<>>, <<>>)
        stripped == [k \in DOMAIN raw |-> Strip(raw[k])]
    IN  SelectSeq(stripped, LAMBDA l : l # <<>>)

\* the defaults of lines 245-246
DefaultVoiceHost == "de-DE-Wavenet-B"
DefaultVoiceGuest == "de-DE-Wavenet-A"

\* lines 244-246
PodcastVoices(cfg) ==
    LET podcast_cfg == Get(cfg, "podcast", <<>>)
    IN  [host |-> Get(podcast_cfg, "voice_host", DefaultVoiceHost),
         guest |-> Get(podcast_cfg, "voice_guest", DefaultVoiceGuest)]

\* line.startswith("ALEX:") / line.startswith("SARA:")
HasTag(line) == line # <<>> /\ Head(line) \in {"ALEX", "SARA"}

\* voice_name = voice_host / voice_guest
VoiceOf(line, voices) == IF Head(line) = "ALEX" THEN voices.host ELSE voices.guest

\* text = line[5:].strip()
TextOf(line) == Strip(Tail(line))

\* faulty variant: a tagged line is synthesized whatever its text
SpokenAlways(text) == TRUE

\* "if not text: continue" negated
Spoken(text) == text # <<>>

\* response.audio_content: the bytes the speech service returns for a text
\* spoken by a voice
AudioContent(voice, text) == <<voice>> \o text

RECURSIVE Flatten(_)
\* the bytes f.write(segment) leaves in the file, segment after segment
Flatten(segments) ==
    IF segments = <<>> THEN <<>> ELSE Head(segments) \o Flatten(Tail(segments))

AudioIdle ==
    /\ aScript = <<>>
    /\ aVoices = [host |-> "none", guest |-> "none"]
    /\ aLines = <<>>
    /\ aIdx = 0
    /\ aSegments = <<>>
    /\ synthCalls = <<>>
    /\ aFile = "none"
    /\ apc = "idle"

\* the call generate_podcast_audio(script, config, output_path)
AudioCall(text) ==
    /\ aScript' = text
    /\ aVoices' = [host |-> "none", guest |-> "none"]
    /\ aLines' = <<>>
    /\ aIdx' = 0
    /\ aSegments' = <<>>
    /\ synthCalls' = <<>>
    /\ aFile' = "none"
    /\ apc' = "called"

\* lines 244-252
AudioParse ==
    /\ apc = "called"
    /\ aVoices' = PodcastVoices(config)
    /\ aLines' = ScriptLines(aScript)
    /\ aIdx' = 1
    /\ apc' = "loop"
    /\ UNCHANGED <<aScript, aSegments, synthCalls, aFile>>

\* lines 254-266: a line without speaker tag or without text is skipped
AudioSkipLine ==
    /\ apc = "loop"
    /\ aIdx <= Len(aLines)
    /\ ~HasTag(aLines[aIdx]) \/ ~Spoken(TextOf(aLines[aIdx]))
    /\ aIdx' = aIdx + 1
    /\ UNCHANGED <<aScript, aVoices, aLines, aSegments, synthCalls, aFile, apc>>

\* lines 254-283: a tagged line with text is synthesized; the request
\* returns the audio or raises
AudioSynthesizeLine ==
    /\ apc = "loop"
    /\ aIdx <= Len(aLines)
    /\ HasTag(aLines[aIdx]) /\ Spoken(TextOf(aLines[aIdx]))
    /\ LET line == aLines[aIdx]
           text == TextOf(line)
           voice_name == VoiceOf(line, aVoices)
       IN  /\ synthCalls' = Append(synthCalls, [text |-> text, name |-> voice_name])
           /\ \E ok \in BOOLEAN :
                 IF ok
                 THEN /\ aSegments' = Append(aSegments, AudioContent(voice_name, text))
                      /\ aIdx' = aIdx + 1
                      /\ UNCHANGED apc
                 ELSE /\ apc' = "raised"
                      /\ UNCHANGED <<aSegments, aIdx>>
    /\ UNCHANGED <<aScript, aVoices, aLines, aFile>>

\* lines 286-292: the segments are written to the file one after the other
AudioWrite ==
    /\ apc = "loop"
    /\ aIdx > Len(aLines)
    /\ aFile' = Flatten(aSegments)
    /\ apc' = "written"
    /\ UNCHANGED <<aScript, aVoices, aLines, aIdx, aSegments, synthCalls>>

(***************************************************************************)
(* fetch_articles (src/agent.py 63-95)                                     *)
(*                                                                         *)
(* A source or an entry is a record that has only the keys it was given.   *)
(* A date is the tuple of the number of hours it lies before now, and None *)
(* the empty tuple.                                                        *)
(***************************************************************************)
\* the defaults of the parameters limit and max_age_hours, and the entries
\* read of one feed
DefaultLimit == 60
DefaultMaxAgeHours == 24
EntriesPerFeed == 15

\* the title put where an entry has none
NoTitle == <<"Kein", "Titel">>

\* entry.get("published_parsed") or entry.get("updated_parsed")
PublishedOf(entry) ==
    IF Get(entry, "published_parsed", <<>>) # <<>>
    THEN entry.published_parsed
    ELSE Get(entry, "updated_parsed", <<>>)

\* lines 79-83: an entry is skipped when it has a date and pub_dt < cutoff,
\* that is when it lies more than max_age_hours back
IsKept(entry, max_age_hours) ==
    LET published == PublishedOf(entry)
    IN  ~(published # <<>> /\ published[1] > max_age_hours)

\* lines 85-90
ArticleOf(entry, source, feed) ==
    [title |-> Get(entry, "title", NoTitle),
     link |-> Get(entry, "link", 0),
     source |-> Get(source, "name", Get(feed.feed, "title", "Unbekannt"))]

\* lines 77-90: the articles one parsed feed adds
ArticlesOfFeed(source, feed, max_age_hours) ==
    LET entries == Take(feed.entries, EntriesPerFeed)
        kept == SelectSeq(entries, LAMBDA e : IsKept(e, max_age_hours))
    IN  [k \in DOMAIN kept |-> ArticleOf(kept[k], source, feed)]

\* The feeds feedparser.parse returns in the model
FreshEntry == [title |-> <<"Fed", "raises", "rates">>, link |-> 1, published_parsed |-> <<1>>]
StaleEntry == [title |-> <<"Cats", "are", "cute">>, link |-> 2, published_parsed |-> <<25>>]
UndatedEntry == [title |-> <<"Fed", "raises", "rates", "today">>, link |-> 3]
UpdatedEntry == [link |-> 4, published_parsed |-> <<>>, updated_parsed |-> <<24>>]
FeedPool ==
    {[raises |-> FALSE, feed |-> [title |-> "Feed One"],
      entries |-> <<FreshEntry, StaleEntry>>],
     [raises |-> FALSE, feed |-> [subtitle |-> "untitled"],
      entries |-> <<UndatedEntry, UpdatedEntry>>],
     [raises |-> FALSE, feed |-> [title |-> "Old News"],
      entries |-> <<StaleEntry>>]}

\* the parse that ends in an exception
ParseRaises == [raises |-> TRUE, feed |-> [title |-> "none"], entries |-> <<>>]

\* what feedparser.parse(source["url"]) does: a source without url raises
\* KeyError before the call, the call raises, or it returns a feed
ParseOutcomes(source) ==
    IF "url" \in DOMAIN source THEN {ParseRaises} \cup FeedPool ELSE {ParseRaises}

\* line 92: print(... source['name'] ...) raises KeyError for a source
\* without name
HandlerRaises(source) == "name" \notin DOMAIN source

FetchIdle ==
    /\ fSources = <<>>
    /\ fLimit = 0
    /\ fMaxAge = 0
    /\ fIdx = 0
    /\ fArticles = <<>>
    /\ fParsed = <<>>
    /\ fResult = <<>>
    /\ fExc = NoExc
    /\ fpc = "idle"

\* the call fetch_articles(sources, limit, max_age_hours), lines 71-72
FetchCall(sources, limit, max_age_hours) ==
    /\ fSources' = sources
    /\ fLimit' = limit
    /\ fMaxAge' = max_age_hours
    /\ fIdx' = 1
    /\ fArticles' = <<>>
    /\ fParsed' = <<>>
    /\ fResult' = <<>>
    /\ fExc' = NoExc
    /\ fpc' = "loop"

\* lines 74-92: one round of the loop over the sources
FetchSource ==
    /\ fpc = "loop"
    /\ fIdx <= Len(fSources)
    /\ LET source == fSources[fIdx]
       IN  \E feed \in ParseOutcomes(source) :
              /\ fParsed' = Append(fParsed, feed)
              /\ IF ~feed.raises
                 THEN /\ fArticles' = fArticles \o ArticlesOfFeed(source, feed, fMaxAge)
                      /\ fIdx' = fIdx + 1
                      /\ UNCHANGED <<fExc, fpc>>
                 ELSE IF HandlerRaises(source)
                      THEN /\ fExc' = [kind |-> "KeyError", at |-> "fetch_articles", attempt |-> 0]
                           /\ fpc' = "raised"
                           /\ UNCHANGED <<fArticles, fIdx>>
                      ELSE /\ fIdx' = fIdx + 1
                           /\ UNCHANGED <<fArticles, fExc, fpc>>
    /\ UNCHANGED <<fSources, fLimit, fMaxAge, fResult>>

\* lines 94-95
FetchReturn ==
    /\ fpc = "loop"
    /\ fIdx > Len(fSources)
    /\ fResult' = Take(fArticles, fLimit)
    /\ fpc' = "returned"
    /\ UNCHANGED <<fSources, fLimit, fMaxAge, fIdx, fArticles, fParsed, fExc>>

(***************************************************************************)
(* The retry policy of generate_digest and generate_podcast_script         *)
(* (src/agent.py 124-129, 184-189)                                         *)
(***************************************************************************)
\* stop_after_attempt(3)
MaxAttemptNumber == 3

\* faulty variant: one more attempt is allowed
StopAfterAttemptLate(attempt_number) == attempt_number >= MaxAttemptNumber + 1

\* stop=stop_after_attempt(3): no retry after this attempt
StopAfterAttempt(attempt_number) == attempt_number >= MaxAttemptNumber

\* reraise=True: the error of the last attempt is raised as it is
Surfaced(e) == e

\* retry=retry_if_exception_type(Exception): what the body of a generation
\* call raises in the model (KeyError: GROQ_API_KEY is not set)
GenerationErrors == {"APIError", "RateLimitError", "KeyError"}

\* the answers of the text model in the model: the lines of a digest
DigestAnswers == {<<40, 300>>, <<1000, 1000>>}

\* the answers of the text model in the model: a script
ScriptAnswers ==
    {<<"ALEX", "CH", "NL", "SARA", "CH">>,
     <<"CH", "NL", "SARA", "NL", "ALEX", "SP", "CH">>}

(***************************************************************************)
(* notify_error (src/agent.py 47-60)                                       *)
(***************************************************************************)
\* len(str(e))
ErrorLen(e) == IF e.kind = "RuntimeError" THEN 89 ELSE 20

\* lines 56-57: the heading with the time, the fence, the error text, the
\* fence, the closing line
ErrorMessage(error_message) ==
    [what |-> [kind |-> "error", attempt |-> 0, error |-> error_message],
     lines |-> <<44, 3, ErrorLen(error_message), 3, 33>>]

(***************************************************************************)
(* The top-level run (src/agent.py 312-359)                                *)
(***************************************************************************)
\* The configurations load_config returns in the model: one without podcast
\* section and with a source without name, one with a podcast section
PlainConfig ==
    [sources |-> <<[name |-> "Heise", url |-> "https://heise.example/rss"],
                   [url |-> "https://golem.example/rss"]>>,
     profile |-> "tech"]
VoicedConfig ==
    [sources |-> <<[name |-> "Heise", url |-> "https://heise.example/rss"]>>,
     profile |-> "tech",
     article_max_age_hours |-> 48,
     podcast |-> [enabled |-> TRUE, voice_host |-> "host-voice",
                  voice_guest |-> "guest-voice"]]
Configs == {PlainConfig, VoicedConfig}

NoConfig == [profile |-> "none"]
NoScript == [attempt |-> 0, text |-> <<>>]

RunIdleWith(cfgs) ==
    /\ env = [webhook |-> FALSE, creds |-> FALSE]
    /\ config \in cfgs
    /\ articles = <<>>
    /\ digest = NoText
    /\ script = NoScript
    /\ digAttempts = <<>>
    /\ scrAttempts = <<>>
    /\ calls = {}
    /\ exc = NoExc
    /\ raised = NoExc
    /\ pc = "idle"

RunIdle == RunIdleWith({NoConfig})

\* an exception reaches the except clause of line 356
Catch(e) ==
    /\ exc' = e
    /\ pc' = "except"

\* lines 315-321: load_config, then the call of fetch_articles
LoadConfig ==
    /\ pc = "load_config"
    /\ \E ok \in BOOLEAN :
          IF ok
          THEN \E c \in Configs :
                  /\ config' = c
                  /\ calls' = calls \cup {"load_config", "fetch_articles"}
                  /\ FetchCall(c.sources,
                               Get(c, "max_article_fetch", DefaultLimit),
                               Get(c, "article_max_age_hours", DefaultMaxAgeHours))
                  /\ pc' = "fetch"
                  /\ UNCHANGED exc
          ELSE /\ Catch([kind |-> "FileNotFoundError", at |-> "load_config", attempt |-> 0])
               /\ calls' = calls \cup {"load_config"}
               /\ UNCHANGED <<config, fetchVars>>
    /\ UNCHANGED <<env, articles, digest, script, digAttempts, scrAttempts, raised>>
    /\ UNCHANGED <<dedupVars, sdVars, audioVars>>

\* faulty variant: the run goes on with an empty list
NoArticlesNever(list) == FALSE

\* line 323: not articles
NoArticles(list) == list = <<>>

\* lines 317-326: fetch_articles returned; an empty list ends the run, any
\* other is de-duplicated
FetchReturned ==
    /\ pc = "fetch"
    /\ fpc = "returned"
    /\ IF NoArticles(fResult)
       THEN /\ Catch([kind |-> "RuntimeError", at |-> "main", attempt |-> 0])
            /\ articles' = fResult
            /\ UNCHANGED calls
       ELSE /\ articles' = deduplicate(fResult)
            /\ calls' = calls \cup {"deduplicate"}
            /\ pc' = "digest"
            /\ UNCHANGED exc
    /\ UNCHANGED <<env, config, digest, script, digAttempts, scrAttempts, raised>>
    /\ UNCHANGED <<dedupVars, sdVars, audioVars, fetchVars>>

\* fetch_articles raised
FetchRaised ==
    /\ pc = "fetch"
    /\ fpc = "raised"
    /\ Catch(fExc)
    /\ UNCHANGED <<env, config, articles, digest, script, digAttempts, scrAttempts, calls,
                   raised>>
    /\ UNCHANGED <<dedupVars, sdVars, audioVars, fetchVars>>

\* line 327: one attempt of generate_digest; the retry policy decides what
\* follows a failed one
DigestAttempt ==
    /\ pc = "digest"
    /\ calls' = calls \cup {"generate_digest"}
    /\ LET attempt_number == Len(digAttempts) + 1
       IN  \/ \E answer \in DigestAnswers :
                 LET value == [what |-> [kind |-> "digest", attempt |-> attempt_number,
                                         error |-> NoExc],
                               lines |-> answer]
                 IN  /\ digAttempts' = Append(digAttempts,
                                          [ok |-> TRUE, value |-> value, error |-> NoExc])
                     /\ digest' = value
                     /\ pc' = "publish"
                     /\ UNCHANGED exc
           \/ \E kind \in GenerationErrors :
                 LET e == [kind |-> kind, at |-> "generate_digest",
                           attempt |-> attempt_number]
                 IN  /\ digAttempts' = Append(digAttempts,
                                          [ok |-> FALSE, value |-> NoText, error |-> e])
                     /\ IF StopAfterAttempt(attempt_number)
                        THEN Catch(Surfaced(e))
                        ELSE UNCHANGED <<exc, pc>>
                     /\ UNCHANGED digest
    /\ UNCHANGED <<env, config, articles, script, scrAttempts, raised>>
    /\ UNCHANGED <<dedupVars, sdVars, audioVars, fetchVars>>

\* lines 328-334: the digest is sent when a webhook is configured
PublishDigest ==
    /\ pc = "publish"
    /\ IF env.webhook
       THEN /\ SendDiscordCall(digest, "News Agent")
            /\ calls' = calls \cup {"send_discord"}
            /\ pc' = "send_digest"
            /\ UNCHANGED <<posts, logs>>
       ELSE /\ pc' = "podcast"
            /\ UNCHANGED <<calls, sdVars>>
    /\ UNCHANGED <<env, config, articles, digest, script, digAttempts, scrAttempts, exc,
                   raised>>
    /\ UNCHANGED <<dedupVars, audioVars, fetchVars>>

\* send_discord(digest, webhook_url) returned
DigestSent ==
    /\ pc = "send_digest"
    /\ sdpc = "returned"
    /\ pc' = "podcast"
    /\ UNCHANGED <<env, config, articles, digest, script, digAttempts, scrAttempts, calls,
                   exc, raised>>
    /\ UNCHANGED <<dedupVars, sdVars, audioVars, fetchVars>>

\* send_discord(digest, webhook_url) raised: requests.post raised in it
DigestSendRaised ==
    /\ pc = "send_digest"
    /\ sdpc = "raised"
    /\ Catch([kind |-> "ConnectionError", at |-> "send_discord", attempt |-> 0])
    /\ UNCHANGED <<env, config, articles, digest, script, digAttempts, scrAttempts, calls,
                   raised>>
    /\ UNCHANGED <<dedupVars, sdVars, audioVars, fetchVars>>

\* lines 337-338, 351-354: the podcast branch is taken when it is enabled and
\* the credentials are set
PodcastBranch ==
    /\ pc = "podcast"
    /\ LET podcast_cfg == Get(config, "podcast", <<>>)
       IN  IF Get(podcast_cfg, "enabled", FALSE) /\ env.creds
           THEN pc' = "script"
           ELSE pc' = "finish"
    /\ UNCHANGED <<env, config, articles, digest, script, digAttempts, scrAttempts, calls,
                   exc, raised>>
    /\ UNCHANGED <<dedupVars, sdVars, audioVars, fetchVars>>

\* line 340: one attempt of generate_podcast_script
ScriptAttempt ==
    /\ pc = "script"
    /\ calls' = calls \cup {"generate_podcast_script"}
    /\ LET attempt_number == Len(scrAttempts) + 1
       IN  \/ \E answer \in ScriptAnswers :
                 LET value == [attempt |-> attempt_number, text |-> answer]
                 IN  /\ scrAttempts' = Append(scrAttempts,
                                          [ok |-> TRUE, value |-> value, error |-> NoExc])
                     /\ script' = value
                     /\ pc' = "synthesize"
                     /\ UNCHANGED exc
           \/ \E kind \in GenerationErrors :
                 LET e == [kind |-> kind, at |-> "generate_podcast_script",
                           attempt |-> attempt_number]
                 IN  /\ scrAttempts' = Append(scrAttempts,
                                          [ok |-> FALSE, value |-> NoScript, error |-> e])
                     /\ IF StopAfterAttempt(attempt_number)
                        THEN Catch(Surfaced(e))
                        ELSE UNCHANGED <<exc, pc>>
                     /\ UNCHANGED script
    /\ UNCHANGED <<env, config, articles, digest, digAttempts, raised>>
    /\ UNCHANGED <<dedupVars, sdVars, audioVars, fetchVars>>

\* lines 341-343: the call of generate_podcast_audio
Synthesize ==
    /\ pc = "synthesize"
    /\ AudioCall(script.text)
    /\ calls' = calls \cup {"generate_podcast_audio"}
    /\ pc' = "audio"
    /\ UNCHANGED <<env, config, articles, digest, script, digAttempts, scrAttempts, exc,
                   raised>>
    /\ UNCHANGED <<dedupVars, sdVars, fetchVars>>

\* lines 344-350: generate_podcast_audio returned; the file is sent when a
\* webhook is configured
AudioReturned ==
    /\ pc = "audio"
    /\ apc = "written"
    /\ pc' = IF env.webhook THEN "send_file" ELSE "finish"
    /\ UNCHANGED <<env, config, articles, digest, script, digAttempts, scrAttempts, calls,
                   exc, raised>>
    /\ UNCHANGED <<dedupVars, sdVars, audioVars, fetchVars>>

\* generate_podcast_audio raised: a synthesis request raised in it
AudioRaised ==
    /\ pc = "audio"
    /\ apc = "raised"
    /\ Catch([kind |-> "GoogleAPIError", at |-> "generate_podcast_audio", attempt |-> 0])
    /\ UNCHANGED <<env, config, articles, digest, script, digAttempts, scrAttempts, calls,
                   raised>>
    /\ UNCHANGED <<dedupVars, sdVars, audioVars, fetchVars>>

\* send_discord_file (lines 295-309): one request with the file attached
SendDiscordFile ==
    /\ pc = "send_file"
    /\ calls' = calls \cup {"send_discord_file"}
    /\ \E r \in PostOutcomes :
          /\ posts' = Append(posts, [username |-> "News Agent",
                                     what |-> [kind |-> "file", attempt |-> 0,
                                               error |-> NoExc],
                                     content |-> <<35>>, file |-> aFile, outcome |-> r])
          /\ IF r = "raise"
             THEN /\ Catch([kind |-> "ConnectionError", at |-> "send_discord_file",
                            attempt |-> 0])
                  /\ UNCHANGED logs
             ELSE /\ logs' = Append(logs, IF r = "200" THEN "gepostet" ELSE "Fehler")
                  /\ pc' = "finish"
                  /\ UNCHANGED exc
    /\ UNCHANGED <<sdText, sdUser, sdChunks, sdIdx, sdpc>>
    /\ UNCHANGED <<env, config, articles, digest, script, digAttempts, scrAttempts, raised>>
    /\ UNCHANGED <<dedupVars, audioVars, fetchVars>>

\* line 354: the run ends without exception
Finish ==
    /\ pc = "finish"
    /\ pc' = "exit_ok"
    /\ UNCHANGED <<env, config, articles, digest, script, digAttempts, scrAttempts, calls,
                   exc, raised>>
    /\ UNCHANGED <<dedupVars, sdVars, audioVars, fetchVars>>

\* lines 356-359 with notify_error, lines 52-60: without webhook
\* notify_error returns at once and the exception is raised again; with one,
\* the error message is handed to send_discord
Except ==
    /\ pc = "except"
    /\ IF ~env.webhook
       THEN /\ raised' = exc
            /\ pc' = "exit_fail"
            /\ calls' = calls \cup {"notify_error"}
            /\ UNCHANGED sdVars
       ELSE /\ SendDiscordCall(ErrorMessage(exc), "News Agent [Fehler]")
            /\ calls' = calls \cup {"notify_error"}
            /\ pc' = "notify"
            /\ UNCHANGED <<posts, logs, raised>>
    /\ UNCHANGED <<env, config, articles, digest, script, digAttempts, scrAttempts, exc>>
    /\ UNCHANGED <<dedupVars, audioVars, fetchVars>>

\* line 359: notify_error returned and the caught exception is raised again
Reraise ==
    /\ pc = "notify"
    /\ sdpc = "returned"
    /\ raised' = exc
    /\ pc' = "exit_fail"
    /\ UNCHANGED <<env, config, articles, digest, script, digAttempts, scrAttempts, calls,
                   exc>>
    /\ UNCHANGED <<dedupVars, sdVars, audioVars, fetchVars>>

\* notify_error raised: requests.post raised in send_discord, and that
\* exception leaves the except clause in place of the caught one
NotifyRaised ==
    /\ pc = "notify"
    /\ sdpc = "raised"
    /\ raised' = [kind |-> "ConnectionError", at |-> "notify_error", attempt |-> 0]
    /\ pc' = "exit_fail"
    /\ UNCHANGED <<env, config, articles, digest, script, digAttempts, scrAttempts, calls,
                   exc>>
    /\ UNCHANGED <<dedupVars, sdVars, audioVars, fetchVars>>

\* The article lists deduplicate is called with: article k carries the link k
ArticleLists ==
    UNION {{[k \in 1..n |-> [title |-> ts[k], link |-> k]] :
                ts \in [1..n -> TitlePool]} : n \in 0..MaxArticles}

DedupIdle ==
    /\ dArticles = <<>>
    /\ dUnique = <<>>
    /\ dTwice = <<>>
    /\ dpc = "idle"

DedupInit ==
    /\ dArticles \in ArticleLists
    /\ dUnique = <<>>
    /\ dTwice = <<>>
    /\ dpc = "call"
    /\ SendDiscordIdle
    /\ AudioIdle
    /\ FetchIdle
    /\ RunIdle

\* articles = deduplicate(articles)
CallDeduplicate ==
    /\ dpc = "call"
    /\ dUnique' = deduplicate(dArticles)
    /\ dpc' = "returned"
    /\ UNCHANGED <<dArticles, dTwice>>

\* deduplicate applied to its own result
CallDeduplicateAgain ==
    /\ dpc = "returned"
    /\ dTwice' = deduplicate(dUnique)
    /\ dpc' = "again"
    /\ UNCHANGED <<dArticles, dUnique>>

DedupNext ==
    \/ CallDeduplicate /\ UNCHANGED <<sdVars, audioVars, fetchVars, runVars>>
    \/ CallDeduplicateAgain /\ UNCHANGED <<sdVars, audioVars, fetchVars, runVars>>

SpecDedup == DedupInit /\ [][DedupNext]_vars

\* The line lengths of the texts send_discord is called with on its own
LineLens == {0, 1, 950, 1899, 1900, 1901, 2001}

ChunkInit ==
    /\ sdText \in {[what |-> [kind |-> "digest", attempt |-> 1, error |-> NoExc], lines |-> q] :
                      q \in UNION {[1..n -> LineLens] : n \in 1..MaxLines}}
    /\ sdUser = "News Agent"
    /\ sdChunks = <<>>
    /\ sdIdx = 0
    /\ posts = <<>>
    /\ logs = <<>>
    /\ sdpc = "called"
    /\ DedupIdle
    /\ AudioIdle
    /\ FetchIdle
    /\ RunIdle

ChunkNext ==
    \/ SendDiscordSplit /\ UNCHANGED <<dedupVars, audioVars, fetchVars, runVars>>
    \/ SendDiscordPost /\ UNCHANGED <<dedupVars, audioVars, fetchVars, runVars>>
    \/ SendDiscordReturn /\ UNCHANGED <<dedupVars, audioVars, fetchVars, runVars>>

SpecChunk == ChunkInit /\ [][ChunkNext]_vars

\* The scripts generate_podcast_audio is called with on its own
Symbols == {"NL", "SP", "ALEX", "SARA", "CH"}
Scripts == UNION {[1..n -> Symbols] : n \in 0..MaxScriptLen}

AudioInit ==
    /\ aScript \in Scripts
    /\ aVoices = [host |-> "none", guest |-> "none"]
    /\ aLines = <<>>
    /\ aIdx = 0
    /\ aSegments = <<>>
    /\ synthCalls = <<>>
    /\ aFile = "none"
    /\ apc = "called"
    /\ DedupIdle
    /\ SendDiscordIdle
    /\ FetchIdle
    /\ RunIdleWith(Configs)

AudioNext ==
    \/ AudioParse /\ UNCHANGED <<dedupVars, sdVars, fetchVars, runVars>>
    \/ AudioSkipLine /\ UNCHANGED <<dedupVars, sdVars, fetchVars, runVars>>
    \/ AudioSynthesizeLine /\ UNCHANGED <<dedupVars, sdVars, fetchVars, runVars>>
    \/ AudioWrite /\ UNCHANGED <<dedupVars, sdVars, fetchVars, runVars>>

SpecAudio == AudioInit /\ [][AudioNext]_vars

\* The source records of the model: complete, without name, without url
SourcePool ==
    {[name |-> "Heise", url |-> "https://heise.example/rss"],
     [url |-> "https://golem.example/rss"],
     [name |-> "Broken"]}

FetchInit ==
    /\ fSources \in UNION {[1..n -> SourcePool] : n \in 1..MaxSources}
    /\ fLimit = DefaultLimit
    /\ fMaxAge = DefaultMaxAgeHours
    /\ fIdx = 1
    /\ fArticles = <<>>
    /\ fParsed = <<>>
    /\ fResult = <<>>
    /\ fExc = NoExc
    /\ fpc = "loop"
    /\ DedupIdle
    /\ SendDiscordIdle
    /\ AudioIdle
    /\ RunIdle

FetchNext ==
    \/ FetchSource /\ UNCHANGED <<dedupVars, sdVars, audioVars, runVars>>
    \/ FetchReturn /\ UNCHANGED <<dedupVars, sdVars, audioVars, runVars>>

SpecFetch == FetchInit /\ [][FetchNext]_vars

Init ==
    /\ env \in [webhook : BOOLEAN, creds : BOOLEAN]
    /\ config = NoConfig
    /\ articles = <<>>
    /\ digest = NoText
    /\ script = NoScript
    /\ digAttempts = <<>>
    /\ scrAttempts = <<>>
    /\ calls = {}
    /\ exc = NoExc
    /\ raised = NoExc
    /\ pc = "load_config"
    /\ DedupIdle
    /\ SendDiscordIdle
    /\ AudioIdle
    /\ FetchIdle

Next ==
    \/ LoadConfig
    \/ FetchSource /\ UNCHANGED <<dedupVars, sdVars, audioVars, runVars>>
    \/ FetchReturn /\ UNCHANGED <<dedupVars, sdVars, audioVars, runVars>>
    \/ FetchReturned
    \/ FetchRaised
    \/ DigestAttempt
    \/ PublishDigest
    \/ SendDiscordSplit /\ UNCHANGED <<dedupVars, audioVars, fetchVars, runVars>>
    \/ SendDiscordPost /\ UNCHANGED <<dedupVars, audioVars, fetchVars, runVars>>
    \/ SendDiscordReturn /\ UNCHANGED <<dedupVars, audioVars, fetchVars, runVars>>
    \/ DigestSent
    \/ DigestSendRaised
    \/ PodcastBranch
    \/ ScriptAttempt
    \/ Synthesize
    \/ AudioParse /\ UNCHANGED <<dedupVars, sdVars, fetchVars, runVars>>
    \/ AudioSkipLine /\ UNCHANGED <<dedupVars, sdVars, fetchVars, runVars>>
    \/ AudioSynthesizeLine /\ UNCHANGED <<dedupVars, sdVars, fetchVars, runVars>>
    \/ AudioWrite /\ UNCHANGED <<dedupVars, sdVars, fetchVars, runVars>>
    \/ AudioReturned
    \/ AudioRaised
    \/ SendDiscordFile
    \/ Finish
    \/ Except
    \/ Reraise
    \/ NotifyRaised

Spec == Init /\ [][Next]_vars

(***************************************************************************)
(* Claims about deduplicate                                                *)
(***************************************************************************)
\* out is in taken at strictly increasing positions
IsSubsequence(out, in) ==
    \E f \in [1..Len(out) -> 1..Len(in)] :
        /\ \A k \in 1..Len(out) : out[k] = in[f[k]]
        /\ \A j, k \in 1..Len(out) : j < k => f[j] < f[k]

\* C2: the result of deduplicate is an order-preserving subsequence of its
\* argument, no longer than it, and any two articles of the result have a
\* title-word Jaccard similarity (|intersection| / max(|union|, 1)) of at
\* most 0.6.
C2_DedupSubsequenceAndDissimilar ==
    dpc # "call" =>
        /\ Len(dUnique) <= Len(dArticles)
        /\ IsSubsequence(dUnique, dArticles)
        /\ \A j, k \in 1..Len(dUnique) :
              j # k =>
                LET a == TitleWords(dUnique[j].title)
                    b == TitleWords(dUnique[k].title)
                IN  10 * Cardinality(a \cap b) <= 6 * Max(Cardinality(a \cup b), 1)

\* some article was dropped as a duplicate and at least two were kept
C2_Witness ==
    /\ dpc = "returned"
    /\ Len(dUnique) >= 2
    /\ Len(dUnique) < Len(dArticles)

FedExample ==
    <<[title |-> FedShort, link |-> 1],
      [title |-> FedLong, link |-> 2],
      [title |-> CatsTitle, link |-> 3]>>

\* C3 as stated: on "Fed raises rates", "Federal Reserve raises interest
\* rates", "Cats are cute" deduplicate returns 2 articles, the first and the
\* third.
C3_FedExampleCollapses ==
    (dpc = "returned" /\ dArticles = FedExample) =>
        /\ Len(dUnique) = 2
        /\ dUnique = <<FedExample[1], FedExample[3]>>

\* C3 amended: on that input deduplicate returns all 3 articles unchanged:
\* the first two titles share 2 of 6 words (0.33 <= 0.6), so neither is
\* dropped.
C3_FedExampleKeepsAll ==
    (dpc = "returned" /\ dArticles = FedExample) =>
        /\ Len(dUnique) = 3
        /\ dUnique = FedExample

C3_Witness == dpc = "returned" /\ dArticles = FedExample

\* C10: deduplicate is idempotent: applied to its own result it returns that
\* result, same articles in the same order.
C10_DedupIdempotent == dpc = "again" => dTwice = dUnique

\* the second call ran on a result of two or more articles that the first
\* call had shortened
C10_Witness ==
    /\ dpc = "again"
    /\ Len(dUnique) >= 2
    /\ Len(dUnique) < Len(dArticles)

\* C9: every chunk send_discord posts is at most 1900 characters long.
C9_ChunksWithinLimit ==
    \A i \in DOMAIN posts : StrLen(posts[i].content) <= 1900

(***************************************************************************)
(* Claims about generate_podcast_audio                                     *)
(***************************************************************************)
RECURSIVE RawLines(_)
\* the lines of a script, cut at every NL, nothing trimmed
RawLines(q) ==
    IF \A i \in DOMAIN q : q[i] # "NL" THEN <<q>>
    ELSE LET n == CHOOSE i \in DOMAIN q :
                      q[i] = "NL" /\ \A j \in 1..(i - 1) : q[j] # "NL"
         IN  <<SubSeq(q, 1, n - 1)>> \o RawLines(SubSeq(q, n + 1, Len(q)))

\* a line without the blanks at its two ends
Trimmed(l) ==
    IF \A i \in DOMAIN l : l[i] = "SP" THEN <<>>
    ELSE LET lo == CHOOSE i \in DOMAIN l : l[i] # "SP" /\ \A j \in 1..(i - 1) : l[j] = "SP"
             hi == CHOOSE i \in DOMAIN l : l[i] # "SP" /\ \A j \in (i + 1)..Len(l) : l[j] = "SP"
         IN  SubSeq(l, lo, hi)

\* the requests a script asks for: one per line that, trimmed, starts with a
\* speaker tag and has text after it, with the voice of that speaker
ExpectedCalls(text, voices) ==
    LET ls == RawLines(text)
        t == [k \in DOMAIN ls |-> Trimmed(ls[k])]
        said == SelectSeq(t, LAMBDA l : /\ l # <<>>
                                        /\ l[1] \in {"ALEX", "SARA"}
                                        /\ Trimmed(Tail(l)) # <<>>)
    IN  [k \in DOMAIN said |->
            [text |-> Trimmed(Tail(said[k])),
             name |-> IF said[k][1] = "ALEX" THEN voices.host ELSE voices.guest]]

\* C8: the file generate_podcast_audio writes is the concatenation, in script
\* order, of one segment per line that (trimmed) starts with a speaker tag and
\* has text after it, each synthesized with the voice of its speaker; no other
\* line causes a synthesis request.
C8_AudioIsConcatenationOfSpokenLines ==
    LET named == "podcast" \in DOMAIN config /\ "voice_host" \in DOMAIN config.podcast
        want == ExpectedCalls(aScript,
                    IF named
                    THEN [host |-> config.podcast.voice_host,
                          guest |-> config.podcast.voice_guest]
                    ELSE [host |-> "de-DE-Wavenet-B", guest |-> "de-DE-Wavenet-A"])
    IN  /\ apc \in {"loop", "written", "raised"} =>
              /\ Len(synthCalls) <= Len(want)
              /\ \A k \in DOMAIN synthCalls : synthCalls[k] = want[k]
        /\ apc = "written" =>
              /\ synthCalls = want
              /\ Len(aSegments) = Len(want)
              /\ aFile = Flatten([k \in DOMAIN want |->
                                    AudioContent(want[k].name, want[k].text)])

\* a script with a spoken line, a tagged line without text and a line
\* without tag was written as one segment
C8_Witness ==
    /\ apc = "written"
    /\ Len(aSegments) = 1
    /\ \E i \in DOMAIN aLines : HasTag(aLines[i]) /\ TextOf(aLines[i]) = <<>>
    /\ \E i \in DOMAIN aLines : ~HasTag(aLines[i])

(***************************************************************************)
(* Claims about fetch_articles                                             *)
(***************************************************************************)
RECURSIVE ArticlesOfParsed(_, _, _)
\* the articles of the sources whose feed was parsed, in source order; a
\* source whose parse raised adds none
ArticlesOfParsed(sources, parsed, max_age_hours) ==
    IF parsed = <<>> THEN <<>>
    ELSE (IF Head(parsed).raises THEN <<>>
          ELSE ArticlesOfFeed(Head(sources), Head(parsed), max_age_hours))
         \o ArticlesOfParsed(Tail(sources), Tail(parsed), max_age_hours)

\* C4: when the parse of a source raises, fetch_articles still returns
\* normally, with the fresh and undated articles of the other sources and
\* none of the failing one, whatever source records it was given.
C4_FailingSourceIsIsolated ==
    (fpc \in {"returned", "raised"} /\ \E k \in DOMAIN fParsed : fParsed[k].raises) =>
        /\ fpc = "returned"
        /\ Len(fParsed) = Len(fSources)
        /\ fResult = ArticlesOfParsed(fSources, fParsed, fMaxAge)

(***************************************************************************)
(* Claims about the top-level run                                          *)
(***************************************************************************)
\* the run is in or past its except clause
Failing == pc \in {"except", "notify", "exit_fail"}

\* the attempts of one generation call keep to the retry policy: at most 3,
\* each but the last one failed, and after a third failed one the error of
\* that attempt is the exception the run caught
WithinBudget(attempts, at) ==
    /\ Len(attempts) <= 3
    /\ \A k \in 1..(Len(attempts) - 1) : ~attempts[k].ok
    /\ (Failing /\ exc.at = at) =>
          /\ Len(attempts) = 3
          /\ \A k \in 1..3 : ~attempts[k].ok
          /\ exc = attempts[3].error
    /\ (Len(attempts) = 3 /\ ~attempts[3].ok) => (Failing /\ exc = attempts[3].error)

\* C1: generate_digest and, with a budget of its own, generate_podcast_script
\* are attempted at most 3 times whatever the body raises; the value returned
\* is the result of the attempt that succeeded (the third, when the first two
\* failed); when all 3 attempts fail the caller gets the error of the body
\* itself, after exactly 3 attempts.
C1_RetryThreeAttempts ==
    /\ WithinBudget(digAttempts, "generate_digest")
    /\ WithinBudget(scrAttempts, "generate_podcast_script")
    /\ digest # NoText =>
          /\ digAttempts[Len(digAttempts)].ok
          /\ digest = digAttempts[Len(digAttempts)].value
          /\ digest.what.attempt = Len(digAttempts)
    /\ script # NoScript =>
          /\ scrAttempts[Len(scrAttempts)].ok
          /\ script = scrAttempts[Len(scrAttempts)].value
          /\ script.attempt = Len(scrAttempts)

\* the digest came with the third attempt, and the script call then failed
\* three times of its own
C1_Witness ==
    /\ pc = "exit_fail"
    /\ Len(digAttempts) = 3
    /\ digest.what.attempt = 3
    /\ Len(scrAttempts) = 3
    /\ raised = scrAttempts[3].error

\* fetch_articles returned an empty list to the run
CollectedNothing == pc \notin {"load_config", "fetch"} /\ fpc = "returned" /\ fResult = <<>>

\* C5: when the collector returns no articles the run fails, and
\* de-duplication, both generation calls, the speech synthesis and the
\* delivery of digest and file never run; only the error is posted.
C5_EmptyBatchAbortsBeforeAnyStage ==
    CollectedNothing =>
        /\ Failing
        /\ exc.kind = "RuntimeError"
        /\ calls \cap {"deduplicate", "generate_digest", "send_discord",
                       "generate_podcast_script", "generate_podcast_audio",
                       "send_discord_file"} = {}
        /\ digAttempts = <<>>
        /\ scrAttempts = <<>>
        /\ synthCalls = <<>>
        /\ aFile = "none"
        /\ \A i \in DOMAIN posts : posts[i].what.kind = "error"

\* every entry of the parsed feeds was stale, the run failed and posted the
\* error
C5_Witness ==
    /\ CollectedNothing
    /\ pc = "exit_fail"
    /\ \E k \in DOMAIN fParsed : ~fParsed[k].raises
    /\ posts # <<>>

\* the posts that carry an error message
ErrorPosts == {i \in DOMAIN posts : posts[i].username = "News Agent [Fehler]"}

\* C6: a run that fails posts, when a webhook is configured, an error message
\* with the text of the failure and then ends with that same failure; without
\* webhook it posts nothing and ends with that failure; a run that succeeds
\* posts no error message.
C6_FailureNotifiedThenReraised ==
    /\ pc = "exit_fail" =>
          /\ raised = exc
          /\ env.webhook =>
                \E i \in ErrorPosts :
                    /\ posts[i].what.error = exc
                    /\ posts[i].outcome # "raise"
          /\ ~env.webhook => ErrorPosts = {}
    /\ pc = "exit_ok" => ErrorPosts = {}

\* C7: a delivery that fails, by an error status or by the post raising, is
\* only logged: send_discord goes on to its remaining chunks and returns, and
\* no run fails because of a delivery.
C7_DeliveryFailureNotFatal ==
    /\ pc = "send_digest" => sdpc # "raised"
    /\ Failing => exc.at \notin {"send_discord", "send_discord_file"}

=============================================================================
